---- MODULE Spec2Model ----
(***************************************************************************)
(* Model of the server actions of credate: the report store                *)
(* (createReport, updateReport, getReportById, deleteReport), the access   *)
(* request engine (requestAccessToReport, approveAccessRequest,            *)
(* denyAccessRequest) and the search engine (createSearch, updateSearch,   *)
(* getSearchById, deleteSearch).  Every action is one whole server action  *)
(* run to completion against the store; `last` records the call and the    *)
(* value it returned.                                                      *)
(***************************************************************************)
EXTENDS Integers, Sequences, FiniteSets, TLC

(* ------------------------------ bounds --------------------------------- *)
MaxReports == 1
MaxRequests == 2
MaxSearches == 1

ReportIds == 1..MaxReports
RequestIds == 1..MaxRequests
SearchIds == 1..MaxSearches

(* --------------------------- program constants ------------------------- *)
MinMessageLen == 10
MaxMessageLen == 1000
MaxNameLen == 100
MaxPhoneLen == 20
MaxDescriptionLen == 1000
MinRating == 0
MaxRating == 10
\* ratings are carried in tenths, so that a non-integer number such as 3.5
\* (which z.number() accepts) is representable
RatingUnit == 10

Undefined == "<undefined>"
Null == "<null>"

RECURSIVE Repeat(_, _)
Repeat(s, n) ==
    IF n = 0 THEN ""
    ELSE IF n % 2 = 0 THEN LET h == Repeat(s, n \div 2) IN h \o h
    ELSE s \o Repeat(s, n - 1)

Fields == <<"name", "instagramId", "facebookId", "email", "phoneNumber">>

(* ------------------------------- inputs -------------------------------- *)
\* the user ids the callers pass: enough for an owner and a non-owner
Users == {"u1", "u2"}

\* strings of the model that match zod's e-mail pattern
ValidEmails == {"a@x.com", "b@x.com"}

IdentifierInputs ==
    { [name |-> "ann", instagramId |-> Undefined, facebookId |-> Undefined,
       email |-> "a@x.com", phoneNumber |-> Undefined],
      [name |-> Undefined, instagramId |-> Undefined, facebookId |-> Undefined,
       email |-> Undefined, phoneNumber |-> Undefined] }

ReportInputs ==
    { [name |-> i.name, instagramId |-> i.instagramId, facebookId |-> i.facebookId,
       email |-> i.email, phoneNumber |-> i.phoneNumber,
       rating |-> 8 * RatingUnit, description |-> Undefined] : i \in IdentifierInputs }

\* identifier records for the validation and matching cases: fields that are
\* omitted, empty, equal to a stored value, or different from it
Ident(name, email) ==
    [name |-> name, instagramId |-> Undefined, facebookId |-> Undefined,
     email |-> email, phoneNumber |-> Undefined]

RecordSearchInputs ==
    { Ident("ann", "a@x.com"),
      Ident("", "a@x.com"),
      Ident(Undefined, "b@x.com"),
      Ident("", Undefined),
      Ident(Undefined, Undefined) }

ReportOf(i, rating) ==
    [name |-> i.name, instagramId |-> i.instagramId, facebookId |-> i.facebookId,
     email |-> i.email, phoneNumber |-> i.phoneNumber,
     rating |-> rating, description |-> Undefined]

\* ratings 0, 10, -1, 11 and 3.5, in tenths
RecordReportInputs ==
    { ReportOf(Ident("ann", "a@x.com"), MinRating * RatingUnit),
      ReportOf(Ident("", "b@x.com"), MaxRating * RatingUnit),
      ReportOf(Ident("", Undefined), MinRating * RatingUnit),
      ReportOf(Ident(Undefined, Undefined), MinRating * RatingUnit),
      ReportOf(Ident("ann", Undefined), (MinRating - 1) * RatingUnit),
      ReportOf(Ident("ann", Undefined), (MaxRating + 1) * RatingUnit),
      ReportOf(Ident("ann", Undefined), 35) }

MessageInputs ==
    { [message |-> Repeat("m", MinMessageLen - 1)],
      [message |-> Repeat("m", MinMessageLen)],
      [message |-> Repeat("m", MaxMessageLen + 1)] }

(* ------------------------------- state --------------------------------- *)
VARIABLES
    reports,        \* table Report: id -> row
    requests,       \* table ReportAccessRequest: id -> row
    searches,       \* table Search: id -> row
    searchResults,  \* table SearchResult: set of rows
    nextReportId,   \* ids the store has handed out so far, per table
    nextRequestId,
    nextSearchId,
    approvals,      \* history: <<requesterId, reportId>> of every successful approve
    inflight,       \* createSearch calls between their store calls: search id -> call
    last            \* the last call and the value it returned

vars == <<reports, requests, searches, searchResults, nextReportId,
          nextRequestId, nextSearchId, approvals, inflight, last>>

(* --------------------------- returned values --------------------------- *)
Fail(msg) ==
    [success |-> FALSE, error |-> msg, report |-> {}, request |-> {},
     search |-> {}, searchResults |-> {}, reports |-> {}]

Ok ==
    [success |-> TRUE, error |-> "", report |-> {}, request |-> {},
     search |-> {}, searchResults |-> {}, reports |-> {}]

\* thrown: the error that a store call raised inside the call, if one did
Call(op, userId, id, input, res) ==
    [op |-> op, userId |-> userId, id |-> id, input |-> input, res |-> res,
     thrown |-> {}]

ToLowerCase(s) ==
    CASE s = "PENDING" -> "pending"
      [] s = "APPROVED" -> "approved"
      [] s = "DENIED" -> "denied"
      [] OTHER -> s

(* ------------------------------ validation ----------------------------- *)
Truthy(v) == v # Undefined /\ v # ""

StringMax(v, n) == v = Undefined \/ Len(v) <= n

IsEmail(v) == v = Undefined \/ v \in ValidEmails

\* variant: an empty string counts as an identifier
AtLeastOneIdentifier_DefinedOnly(data) ==
    \E i \in 1..Len(Fields) : data[Fields[i]] # Undefined

AtLeastOneIdentifier(data) ==
    \E i \in 1..Len(Fields) : Truthy(data[Fields[i]])

identifierShape(data) ==
    /\ StringMax(data.name, MaxNameLen)
    /\ StringMax(data.instagramId, MaxNameLen)
    /\ StringMax(data.facebookId, MaxNameLen)
    /\ IsEmail(data.email)
    /\ StringMax(data.phoneNumber, MaxPhoneLen)

\* variant: the upper limit of the rating is missing
reportInputSchema_NoMax(input) ==
    /\ identifierShape(input)
    /\ input.rating >= MinRating * RatingUnit
    /\ StringMax(input.description, MaxDescriptionLen)
    /\ AtLeastOneIdentifier(input)

reportInputSchema(input) ==
    /\ identifierShape(input)
    /\ input.rating >= MinRating * RatingUnit
    /\ input.rating <= MaxRating * RatingUnit
    /\ StringMax(input.description, MaxDescriptionLen)
    /\ AtLeastOneIdentifier(input)

searchInputSchema(input) ==
    /\ identifierShape(input)
    /\ AtLeastOneIdentifier(input)

\* variant: the lower limit is off by one
accessRequestSchema_OffByOne(input) ==
    /\ Len(input.message) >= MinMessageLen - 1
    /\ Len(input.message) <= MaxMessageLen

accessRequestSchema(input) ==
    /\ Len(input.message) >= MinMessageLen
    /\ Len(input.message) <= MaxMessageLen

ZodError(schema) == "ZodError: " \o schema

\* a column the input leaves undefined is stored as NULL
Column(v) == IF v = Undefined THEN Null ELSE v

(* ------------------------------ the store ------------------------------ *)
DefaultStatus == "PENDING"

\* variant: the requests of a deleted report stay
CascadeRequests_None(reportId) == {}

\* rows of ReportAccessRequest that go with a deleted report
CascadeRequests(reportId) ==
    { q \in DOMAIN requests : requests[q].reportId = reportId }

\* rows of SearchResult that go with a deleted report
CascadeReportResults(reportId) ==
    { sr \in searchResults : sr.reportId = reportId }

\* rows of SearchResult that go with a deleted search
CascadeSearchResults(searchId) ==
    { sr \in searchResults : sr.searchId = searchId }

\* the rating column of Report holds integers: the store refuses any other number
RatingColumnAccepts(rating) == rating % RatingUnit = 0

\* the message of an error the store throws
StoreError(what) == "PrismaClientValidationError: " \o what

\* an Error object thrown by a store call
StoreFailure(what) == [isError |-> TRUE, message |-> StoreError(what)]

\* error instanceof Error ? error.message : "Invalid input"
ErrorMessage(error) == IF error.isError THEN error.message ELSE "Invalid input"

\* what the catch block of each handler returns as error
Caught(op, error) ==
    CASE op \in {"createReport", "updateReport", "createSearch", "updateSearch"}
            -> ErrorMessage(error)
      [] op = "getReportById" -> "Failed to fetch report"
      [] op = "deleteReport" -> "Failed to delete report"
      [] op = "getSearchById" -> "Failed to fetch search"
      [] op = "deleteSearch" -> "Failed to delete search"
      [] op = "requestAccessToReport" -> "Failed to create access request"
      [] op = "approveAccessRequest" -> "Failed to approve request"
      [] op = "denyAccessRequest" -> "Failed to deny request"

\* a call in which a store call threw: the catch block builds the result
Throwing(op, userId, id, input, error) ==
    [Call(op, userId, id, input, Fail(Caught(op, error))) EXCEPT !.thrown = {error}]

Without(f, ids) == [k \in DOMAIN f \ ids |-> f[k]]

With(f, k, v) == [x \in DOMAIN f \cup {k} |-> IF x = k THEN v ELSE f[x]]

Init ==
    /\ reports = <<>>
    /\ requests = <<>>
    /\ searches = <<>>
    /\ searchResults = {}
    /\ nextReportId = 1
    /\ nextRequestId = 1
    /\ nextSearchId = 1
    /\ approvals = {}
    /\ inflight = <<>>
    /\ last = Call("init", "", 0, Undefined, Ok)

(* ----------------------------- report store ---------------------------- *)
NewReport(id, userId, data) ==
    [id |-> id, userId |-> userId,
     name |-> Column(data.name), instagramId |-> Column(data.instagramId),
     facebookId |-> Column(data.facebookId), email |-> Column(data.email),
     phoneNumber |-> Column(data.phoneNumber),
     rating |-> data.rating, description |-> Column(data.description)]

\* prisma update: a field the data leaves undefined keeps its stored value
Keep(old, v) == IF v = Undefined THEN old ELSE v

\* variant: the update hands the report to another user
UpdatedReport_ChangesOwner(existing, data) ==
    [id |-> existing.id,
     userId |-> CHOOSE u \in Users : u # existing.userId,
     name |-> Keep(existing.name, data.name),
     instagramId |-> Keep(existing.instagramId, data.instagramId),
     facebookId |-> Keep(existing.facebookId, data.facebookId),
     email |-> Keep(existing.email, data.email),
     phoneNumber |-> Keep(existing.phoneNumber, data.phoneNumber),
     rating |-> data.rating,
     description |-> Keep(existing.description, data.description)]

UpdatedReport(existing, data) ==
    [id |-> existing.id, userId |-> existing.userId,
     name |-> Keep(existing.name, data.name),
     instagramId |-> Keep(existing.instagramId, data.instagramId),
     facebookId |-> Keep(existing.facebookId, data.facebookId),
     email |-> Keep(existing.email, data.email),
     phoneNumber |-> Keep(existing.phoneNumber, data.phoneNumber),
     rating |-> data.rating,
     description |-> Keep(existing.description, data.description)]

createReport(userId, input) ==
    IF ~reportInputSchema(input)
    THEN /\ last' = Call("createReport", userId, 0, input, Fail(ZodError("report")))
         /\ UNCHANGED <<reports, nextReportId>>
    ELSE IF ~RatingColumnAccepts(input.rating)
    THEN /\ last' = Throwing("createReport", userId, 0, input, StoreFailure("rating"))
         /\ UNCHANGED <<reports, nextReportId>>
    ELSE /\ nextReportId <= MaxReports
         /\ LET report == NewReport(nextReportId, userId, input) IN
            /\ reports' = With(reports, nextReportId, report)
            /\ nextReportId' = nextReportId + 1
            /\ last' = Call("createReport", userId, 0, input,
                            [Ok EXCEPT !.report = {report}, !.reports = {report}])

CreateReport ==
    /\ \E userId \in Users, input \in ReportInputs : createReport(userId, input)
    /\ UNCHANGED inflight
    /\ UNCHANGED <<requests, searches, searchResults, nextRequestId, nextSearchId, approvals>>

\* variant: no ownership check
updateUnauthorized_Never(existing, userId) == FALSE

\* existing.userId !== userId
updateUnauthorized(existing, userId) == existing.userId # userId

\* variant: the rows whose matched field the edit changes are dropped
ResultsAfterReportUpdate_DropsStale(reportId, updated) ==
    { sr \in searchResults :
         \/ sr.reportId # reportId
         \/ updated[sr.matchedOn] = reports[reportId][sr.matchedOn] }

\* the SearchResult table after report.update: the handler writes no row
ResultsAfterReportUpdate(reportId, updated) == searchResults

updateReport(userId, reportId, input) ==
    IF reportId \notin DOMAIN reports
    THEN /\ last' = Call("updateReport", userId, reportId, input, Fail("Report not found"))
         /\ UNCHANGED <<reports, searchResults>>
    ELSE IF updateUnauthorized(reports[reportId], userId)
    THEN /\ last' = Call("updateReport", userId, reportId, input,
                         Fail("Unauthorized: You do not own this report"))
         /\ UNCHANGED <<reports, searchResults>>
    ELSE IF ~reportInputSchema(input)
    THEN /\ last' = Call("updateReport", userId, reportId, input, Fail(ZodError("report")))
         /\ UNCHANGED <<reports, searchResults>>
    ELSE IF ~RatingColumnAccepts(input.rating)
    THEN /\ last' = Throwing("updateReport", userId, reportId, input,
                             StoreFailure("rating"))
         /\ UNCHANGED <<reports, searchResults>>
    ELSE LET updated == UpdatedReport(reports[reportId], input) IN
         /\ reports' = [reports EXCEPT ![reportId] = updated]
         /\ searchResults' = ResultsAfterReportUpdate(reportId, updated)
         /\ last' = Call("updateReport", userId, reportId, input,
                         [Ok EXCEPT !.report = {updated}, !.reports = {updated}])

UpdateReport ==
    /\ \E userId \in Users, reportId \in ReportIds, input \in ReportInputs :
          updateReport(userId, reportId, input)
    /\ UNCHANGED inflight
    /\ UNCHANGED <<requests, searches, nextReportId, nextRequestId,
                   nextSearchId, approvals>>

\* variant: the status filter is lost, a request of any status opens the report
VisibleReports_AnyStatus(userId, reportId) ==
    { r \in DOMAIN reports :
        /\ r = reportId
        /\ \/ reports[r].userId = userId
           \/ \E q \in DOMAIN requests :
                 /\ requests[q].reportId = r
                 /\ requests[q].requesterId = userId }

\* variant: the status is compared with the lower-case spelling
VisibleReports_LowercaseStatus(userId, reportId) ==
    { r \in DOMAIN reports :
        /\ r = reportId
        /\ \/ reports[r].userId = userId
           \/ \E q \in DOMAIN requests :
                 /\ requests[q].reportId = r
                 /\ requests[q].requesterId = userId
                 /\ requests[q].status = "approved" }

\* report.findFirst where id = reportId AND (userId = userId OR
\* accessRequests some (requesterId = userId AND status = APPROVED))
VisibleReports(userId, reportId) ==
    { r \in DOMAIN reports :
        /\ r = reportId
        /\ \/ reports[r].userId = userId
           \/ \E q \in DOMAIN requests :
                 /\ requests[q].reportId = r
                 /\ requests[q].requesterId = userId
                 /\ requests[q].status = "APPROVED" }

\* variant: an absent report is told apart from a refused one
getReportByIdResult_TellsAbsent(userId, reportId) ==
    IF reportId \notin DOMAIN reports
    THEN Fail("Report not found")
    ELSE IF VisibleReports(userId, reportId) = {}
    THEN Fail("Access denied or report not found.")
    ELSE LET report == reports[CHOOSE r \in VisibleReports(userId, reportId) : TRUE] IN
         [Ok EXCEPT !.report = {report}, !.reports = {report}]

getReportByIdResult(userId, reportId) ==
    IF VisibleReports(userId, reportId) = {}
    THEN Fail("Access denied or report not found.")
    ELSE LET report == reports[CHOOSE r \in VisibleReports(userId, reportId) : TRUE] IN
         [Ok EXCEPT !.report = {report}, !.reports = {report}]

getReportById(userId, reportId) ==
    last' = Call("getReportById", userId, reportId, Undefined,
                 getReportByIdResult(userId, reportId))

GetReportById ==
    /\ \E userId \in Users, reportId \in ReportIds : getReportById(userId, reportId)
    /\ UNCHANGED inflight
    /\ UNCHANGED <<reports, requests, searches, searchResults, nextReportId,
                   nextRequestId, nextSearchId, approvals>>

deleteReport(userId, reportId) ==
    IF reportId \notin DOMAIN reports
    THEN /\ last' = Call("deleteReport", userId, reportId, Undefined, Fail("Report not found"))
         /\ UNCHANGED <<reports, requests, searchResults>>
    ELSE IF reports[reportId].userId # userId
    THEN /\ last' = Call("deleteReport", userId, reportId, Undefined, Fail("Unauthorized access"))
         /\ UNCHANGED <<reports, requests, searchResults>>
    ELSE /\ reports' = Without(reports, {reportId})
         /\ requests' = Without(requests, CascadeRequests(reportId))
         /\ searchResults' = searchResults \ CascadeReportResults(reportId)
         /\ last' = Call("deleteReport", userId, reportId, Undefined, Ok)

DeleteReport ==
    /\ \E userId \in Users, reportId \in ReportIds : deleteReport(userId, reportId)
    /\ UNCHANGED inflight
    /\ UNCHANGED <<searches, nextReportId, nextRequestId, nextSearchId,
                   approvals>>

(* ------------------------- access request engine ----------------------- *)
\* variant: no existence check
ExistingRequests_None(userId, reportId) == {}

\* variant: the existence check looks at pending requests only
ExistingRequests_PendingOnly(userId, reportId) ==
    { q \in DOMAIN requests :
        /\ requests[q].reportId = reportId
        /\ requests[q].requesterId = userId
        /\ requests[q].status = "PENDING" }

\* reportAccessRequest.findFirst where reportId, requesterId
ExistingRequests(userId, reportId) ==
    { q \in DOMAIN requests :
        requests[q].reportId = reportId /\ requests[q].requesterId = userId }

\* variant: the caller is written as the report's owner
NewRequest_OwnerIsCaller(id, userId, report, message) ==
    [id |-> id, requesterId |-> userId, reportId |-> report.id,
     reportOwnerId |-> userId, message |-> message, status |-> DefaultStatus]

NewRequest(id, userId, report, message) ==
    [id |-> id, requesterId |-> userId, reportId |-> report.id,
     reportOwnerId |-> report.userId, message |-> message, status |-> DefaultStatus]

\* variant: no ownership check
requestIsOwner_Never(report, userId) == FALSE

\* report.userId === userId
requestIsOwner(report, userId) == report.userId = userId

ConflictError(request) ==
    "You already have a " \o ToLowerCase(request.status) \o " request for this report."

\* variant: the message is validated before the existence check
requestRefusal_ValidatesFirst(userId, reportId, input) ==
    IF reportId \notin DOMAIN reports
    THEN "Report not found"
    ELSE IF requestIsOwner(reports[reportId], userId)
    THEN "You already own this report"
    ELSE IF ~accessRequestSchema(input)
    THEN ZodError("message")
    ELSE IF ExistingRequests(userId, reportId) # {}
    THEN ConflictError(requests[CHOOSE q \in ExistingRequests(userId, reportId) : TRUE])
    ELSE ""

\* the failure that the checks of the handler return, in their order, ""
\* when they all pass
requestRefusal(userId, reportId, input) ==
    IF reportId \notin DOMAIN reports
    THEN "Report not found"
    ELSE IF requestIsOwner(reports[reportId], userId)
    THEN "You already own this report"
    ELSE IF ExistingRequests(userId, reportId) # {}
    THEN ConflictError(requests[CHOOSE q \in ExistingRequests(userId, reportId) : TRUE])
    ELSE IF ~accessRequestSchema(input)
    THEN ZodError("message")
    ELSE ""

requestAccessToReport(userId, reportId, input) ==
    IF requestRefusal(userId, reportId, input) # ""
    THEN /\ last' = Call("requestAccessToReport", userId, reportId, input,
                         Fail(requestRefusal(userId, reportId, input)))
         /\ UNCHANGED <<requests, nextRequestId>>
    ELSE /\ nextRequestId <= MaxRequests
         /\ LET request == NewRequest(nextRequestId, userId, reports[reportId],
                                      input.message) IN
            /\ requests' = With(requests, nextRequestId, request)
            /\ nextRequestId' = nextRequestId + 1
            /\ last' = Call("requestAccessToReport", userId, reportId, input,
                            [Ok EXCEPT !.request = {request}])

RequestAccessToReport ==
    /\ \E userId \in Users, reportId \in ReportIds, input \in MessageInputs :
          requestAccessToReport(userId, reportId, input)
    /\ UNCHANGED inflight
    /\ UNCHANGED <<reports, searches, searchResults, nextReportId, nextSearchId, approvals>>

\* variant: no permission check
approveUnauthorized_Never(request, reportOwnerId) == FALSE

\* request.reportOwnerId !== reportOwnerId
approveUnauthorized(request, reportOwnerId) == request.reportOwnerId # reportOwnerId

\* variant: no status check
approveNotPending_Never(request) == FALSE

\* request.status !== "PENDING"
approveNotPending(request) == request.status # "PENDING"

\* variant: the update also writes the message
ApprovedRow_ClearsMessage(request) ==
    [request EXCEPT !.status = "APPROVED", !.message = ""]

\* reportAccessRequest.update data: { status: "APPROVED" }
ApprovedRow(request) == [request EXCEPT !.status = "APPROVED"]

approveAccessRequest(reportOwnerId, requestId) ==
    IF requestId \notin DOMAIN requests
    THEN /\ last' = Call("approveAccessRequest", reportOwnerId, requestId, Undefined,
                         Fail("Request not found"))
         /\ UNCHANGED <<requests, approvals>>
    ELSE IF approveUnauthorized(requests[requestId], reportOwnerId)
    THEN /\ last' = Call("approveAccessRequest", reportOwnerId, requestId, Undefined,
                         Fail("You don't have permission to approve this request"))
         /\ UNCHANGED <<requests, approvals>>
    ELSE IF approveNotPending(requests[requestId])
    THEN /\ last' = Call("approveAccessRequest", reportOwnerId, requestId, Undefined,
                         Fail("Request is already "
                              \o ToLowerCase(requests[requestId].status)))
         /\ UNCHANGED <<requests, approvals>>
    ELSE LET updated == ApprovedRow(requests[requestId]) IN
         /\ requests' = [requests EXCEPT ![requestId] = updated]
         /\ approvals' = approvals \cup {<<updated.requesterId, updated.reportId>>}
         /\ last' = Call("approveAccessRequest", reportOwnerId, requestId, Undefined,
                         [Ok EXCEPT !.request = {updated}])

ApproveAccessRequest ==
    /\ \E reportOwnerId \in Users, requestId \in RequestIds :
          approveAccessRequest(reportOwnerId, requestId)
    /\ UNCHANGED inflight
    /\ UNCHANGED <<reports, searches, searchResults, nextReportId, nextRequestId,
                   nextSearchId>>

\* request.reportOwnerId !== reportOwnerId
denyUnauthorized(request, reportOwnerId) == request.reportOwnerId # reportOwnerId

\* variant: no status check
denyNotPending_Never(request) == FALSE

\* request.status !== "PENDING"
denyNotPending(request) == request.status # "PENDING"

\* reportAccessRequest.update data: { status: "DENIED" }
DeniedRow(request) == [request EXCEPT !.status = "DENIED"]

denyAccessRequest(reportOwnerId, requestId) ==
    IF requestId \notin DOMAIN requests
    THEN /\ last' = Call("denyAccessRequest", reportOwnerId, requestId, Undefined,
                         Fail("Request not found"))
         /\ UNCHANGED requests
    ELSE IF denyUnauthorized(requests[requestId], reportOwnerId)
    THEN /\ last' = Call("denyAccessRequest", reportOwnerId, requestId, Undefined,
                         Fail("You don't have permission to deny this request"))
         /\ UNCHANGED requests
    ELSE IF denyNotPending(requests[requestId])
    THEN /\ last' = Call("denyAccessRequest", reportOwnerId, requestId, Undefined,
                         Fail("Request is already "
                              \o ToLowerCase(requests[requestId].status)))
         /\ UNCHANGED requests
    ELSE LET updated == DeniedRow(requests[requestId]) IN
         /\ requests' = [requests EXCEPT ![requestId] = updated]
         /\ last' = Call("denyAccessRequest", reportOwnerId, requestId, Undefined,
                         [Ok EXCEPT !.request = {updated}])

DenyAccessRequest ==
    /\ \E reportOwnerId \in Users, requestId \in RequestIds :
          denyAccessRequest(reportOwnerId, requestId)
    /\ UNCHANGED inflight
    /\ UNCHANGED <<reports, searches, searchResults, nextReportId, nextRequestId,
                   nextSearchId, approvals>>

(* ----------------------------- search engine --------------------------- *)
NewSearch(id, userId, data) ==
    [id |-> id, userId |-> userId,
     name |-> Column(data.name), instagramId |-> Column(data.instagramId),
     facebookId |-> Column(data.facebookId), email |-> Column(data.email),
     phoneNumber |-> Column(data.phoneNumber)]

UpdatedSearch(existing, data) ==
    [id |-> existing.id, userId |-> existing.userId,
     name |-> Keep(existing.name, data.name),
     instagramId |-> Keep(existing.instagramId, data.instagramId),
     facebookId |-> Keep(existing.facebookId, data.facebookId),
     email |-> Keep(existing.email, data.email),
     phoneNumber |-> Keep(existing.phoneNumber, data.phoneNumber)]

\* Object.entries(data) filtered on value !== undefined: the fields of the
\* OR condition, by their index in Fields
orConditions(data) ==
    { i \in 1..Len(Fields) : data[Fields[i]] # Undefined }

\* report.findMany where OR: orConditions
matchingReports(data) ==
    { r \in DOMAIN reports :
        \E i \in orConditions(data) : reports[r][Fields[i]] = data[Fields[i]] }

\* variant: the last matching field is taken
matchedField_LastHit(data, report) ==
    LET hits == { i \in 1..Len(Fields) : report[Fields[i]] = data[Fields[i]] } IN
    IF hits = {} THEN "unknown"
    ELSE Fields[CHOOSE i \in hits : \A j \in hits : i >= j]

\* Object.entries(data).find(([key, value]) => report[key] === value)?.[0] || "unknown"
matchedField(data, report) ==
    LET hits == { i \in 1..Len(Fields) : report[Fields[i]] = data[Fields[i]] } IN
    IF hits = {} THEN "unknown"
    ELSE Fields[CHOOSE i \in hits : \A j \in hits : i <= j]

NewSearchResult(search, report, matchedOn) ==
    [id |-> <<search.id, report.id>>, searchId |-> search.id,
     reportId |-> report.id, matchedOn |-> matchedOn]

createSearch(userId, input) ==
    IF ~searchInputSchema(input)
    THEN /\ last' = Call("createSearch", userId, 0, input, Fail(ZodError("search")))
         /\ UNCHANGED <<searches, searchResults, nextSearchId>>
    ELSE /\ nextSearchId <= MaxSearches
         /\ LET search == NewSearch(nextSearchId, userId, input) IN
            /\ searches' = With(searches, nextSearchId, search)
            /\ nextSearchId' = nextSearchId + 1
            /\ IF orConditions(input) = {}
               THEN /\ UNCHANGED searchResults
                    /\ last' = Call("createSearch", userId, 0, input,
                                    [Ok EXCEPT !.search = {search}])
               ELSE LET created ==
                          { NewSearchResult(search, reports[r],
                                            matchedField(input, reports[r])) :
                              r \in matchingReports(input) } IN
                    /\ searchResults' = searchResults \cup created
                    /\ last' = Call("createSearch", userId, 0, input,
                                    [Ok EXCEPT !.search = {search},
                                               !.searchResults = created])

CreateSearch ==
    /\ \E userId \in Users, input \in IdentifierInputs : createSearch(userId, input)
    /\ UNCHANGED inflight
    /\ UNCHANGED <<reports, requests, nextReportId, nextRequestId, approvals>>

\* variant: the update matches again and replaces the rows of the search
ResultsAfterUpdate_Rematch(searchId, data) ==
    { sr \in searchResults : sr.searchId # searchId }
    \cup { NewSearchResult(searches[searchId], reports[r], matchedField(data, reports[r])) :
             r \in matchingReports(data) }

\* the SearchResult table after search.update: the handler writes no row
ResultsAfterUpdate(searchId, data) == searchResults

updateSearch(userId, searchId, input) ==
    IF searchId \notin DOMAIN searches
    THEN /\ last' = Call("updateSearch", userId, searchId, input, Fail("Search not found"))
         /\ UNCHANGED <<searches, searchResults>>
    ELSE IF searches[searchId].userId # userId
    THEN /\ last' = Call("updateSearch", userId, searchId, input,
                         Fail("Unauthorized: You do not own this search"))
         /\ UNCHANGED <<searches, searchResults>>
    ELSE IF ~searchInputSchema(input)
    THEN /\ last' = Call("updateSearch", userId, searchId, input, Fail(ZodError("search")))
         /\ UNCHANGED <<searches, searchResults>>
    ELSE LET updated == UpdatedSearch(searches[searchId], input) IN
         /\ searches' = [searches EXCEPT ![searchId] = updated]
         /\ searchResults' = ResultsAfterUpdate(searchId, input)
         /\ last' = Call("updateSearch", userId, searchId, input,
                         [Ok EXCEPT !.search = {updated}])

UpdateSearch ==
    /\ \E userId \in Users, searchId \in SearchIds, input \in IdentifierInputs :
          updateSearch(userId, searchId, input)
    /\ UNCHANGED inflight
    /\ UNCHANGED <<reports, requests, nextReportId, nextRequestId, nextSearchId,
                   approvals>>

\* include: searchResults, each with its report
IncludedResults(searchId) == { sr \in searchResults : sr.searchId = searchId }

IncludedReports(searchId) ==
    { reports[sr.reportId] :
        sr \in { x \in IncludedResults(searchId) : x.reportId \in DOMAIN reports } }

\* variant: no ownership check
getSearchByIdResult_NoOwnerCheck(userId, searchId) ==
    IF searchId \notin DOMAIN searches
    THEN Fail("Search not found")
    ELSE [Ok EXCEPT !.search = {searches[searchId]},
                    !.searchResults = IncludedResults(searchId),
                    !.reports = IncludedReports(searchId)]

getSearchByIdResult(userId, searchId) ==
    IF searchId \notin DOMAIN searches
    THEN Fail("Search not found")
    ELSE IF searches[searchId].userId # userId
    THEN Fail("Unauthorized access")
    ELSE [Ok EXCEPT !.search = {searches[searchId]},
                    !.searchResults = IncludedResults(searchId),
                    !.reports = IncludedReports(searchId)]

getSearchById(userId, searchId) ==
    last' = Call("getSearchById", userId, searchId, Undefined,
                 getSearchByIdResult(userId, searchId))

GetSearchById ==
    /\ \E userId \in Users, searchId \in SearchIds : getSearchById(userId, searchId)
    /\ UNCHANGED inflight
    /\ UNCHANGED <<reports, requests, searches, searchResults, nextReportId,
                   nextRequestId, nextSearchId, approvals>>

\* variant: the reports that the search matched go with it
ReportsAfterDeleteSearch_DropsMatched(searchId) ==
    Without(reports, { sr.reportId : sr \in CascadeSearchResults(searchId) })

\* the Report table after search.delete: the handler deletes the search only
ReportsAfterDeleteSearch(searchId) == reports

deleteSearch(userId, searchId) ==
    IF searchId \notin DOMAIN searches
    THEN /\ last' = Call("deleteSearch", userId, searchId, Undefined, Fail("Search not found"))
         /\ UNCHANGED <<reports, searches, searchResults>>
    ELSE IF searches[searchId].userId # userId
    THEN /\ last' = Call("deleteSearch", userId, searchId, Undefined,
                         Fail("Unauthorized access"))
         /\ UNCHANGED <<reports, searches, searchResults>>
    ELSE /\ searches' = Without(searches, {searchId})
         /\ reports' = ReportsAfterDeleteSearch(searchId)
         /\ searchResults' = searchResults \ CascadeSearchResults(searchId)
         /\ last' = Call("deleteSearch", userId, searchId, Undefined, Ok)

DeleteSearch ==
    /\ \E userId \in Users, searchId \in SearchIds : deleteSearch(userId, searchId)
    /\ UNCHANGED inflight
    /\ UNCHANGED <<requests, nextReportId, nextRequestId, nextSearchId,
                   approvals>>

(* ---------------------------- specification ---------------------------- *)
Next ==
    \/ CreateReport
    \/ UpdateReport
    \/ GetReportById
    \/ DeleteReport
    \/ RequestAccessToReport
    \/ ApproveAccessRequest
    \/ DenyAccessRequest
    \/ CreateSearch
    \/ UpdateSearch
    \/ GetSearchById
    \/ DeleteSearch

Spec == Init /\ [][Next]_vars

(* ------------- the stores under validation and matching inputs -------- *)
\* one user writes the reports, another one searches
RecordAuthors == {"u1"}

RecordSearchers == {"u2"}

RecordCreateReport ==
    /\ \E userId \in RecordAuthors, input \in RecordReportInputs : createReport(userId, input)
    /\ UNCHANGED inflight
    /\ UNCHANGED <<requests, searches, searchResults, nextRequestId, nextSearchId, approvals>>

\* what a user other than the author submits: one valid and one invalid record
RecordForeignInputs ==
    { ReportOf(Ident("bob", "a@x.com"), MinRating * RatingUnit),
      ReportOf(Ident(Undefined, Undefined), MinRating * RatingUnit) }

RecordUpdateReport ==
    /\ \E userId \in Users, reportId \in ReportIds :
          \E input \in IF userId \in RecordAuthors THEN RecordReportInputs
                                                  ELSE RecordForeignInputs :
             updateReport(userId, reportId, input)
    /\ UNCHANGED inflight
    /\ UNCHANGED <<requests, searches, nextReportId, nextRequestId,
                   nextSearchId, approvals>>

RecordCreateSearch ==
    /\ \E userId \in RecordSearchers, input \in RecordSearchInputs : createSearch(userId, input)
    /\ UNCHANGED inflight
    /\ UNCHANGED <<reports, requests, nextReportId, nextRequestId, approvals>>

RecordUpdateSearch ==
    /\ \E userId \in RecordSearchers, searchId \in SearchIds, input \in RecordSearchInputs :
          updateSearch(userId, searchId, input)
    /\ UNCHANGED inflight
    /\ UNCHANGED <<reports, requests, nextReportId, nextRequestId, nextSearchId,
                   approvals>>

RecordDeleteReport ==
    /\ \E userId \in Users, reportId \in ReportIds : deleteReport(userId, reportId)
    /\ UNCHANGED inflight
    /\ UNCHANGED <<searches, nextReportId, nextRequestId, nextSearchId, approvals>>

RecordGetSearchById ==
    /\ \E userId \in RecordSearchers, searchId \in SearchIds : getSearchById(userId, searchId)
    /\ UNCHANGED inflight
    /\ UNCHANGED <<reports, requests, searches, searchResults, nextReportId,
                   nextRequestId, nextSearchId, approvals>>

RecordDeleteSearch ==
    /\ \E userId \in RecordSearchers, searchId \in SearchIds : deleteSearch(userId, searchId)
    /\ UNCHANGED inflight
    /\ UNCHANGED <<requests, nextReportId, nextRequestId, nextSearchId,
                   approvals>>

RecordNext ==
    \/ RecordCreateReport
    \/ RecordUpdateReport
    \/ RecordDeleteReport
    \/ RecordCreateSearch
    \/ RecordUpdateSearch
    \/ RecordGetSearchById
    \/ RecordDeleteSearch

SpecRecords == Init /\ [][RecordNext]_vars

(* ------------- createSearch as its store calls, interleaved ------------- *)
\* createSearch awaits three store calls: search.create, report.findMany and
\* the $transaction of the result rows; calls of other requests are served
\* in between
MaxBatch == 2

StepReportInputs ==
    { ReportOf(Ident("ann", "a@x.com"), MinRating * RatingUnit),
      ReportOf(Ident("", "b@x.com"), MaxRating * RatingUnit) }

StepSearchInputs == { Ident("ann", "a@x.com"), Ident("", Undefined) }

InFlight(pc, userId, input, rows) ==
    [pc |-> pc, userId |-> userId, input |-> input, rows |-> rows]

\* variant: the rows are committed one at a time
TransactionCommits_OneByOne(rows) == { {row} : row \in rows }

\* prisma.$transaction([...]): the rows that one commit of the store makes visible
TransactionCommits(rows) == {rows}

StepCreateReport ==
    /\ nextReportId <= MaxBatch
    /\ \E userId \in RecordAuthors, input \in StepReportInputs :
          LET report == NewReport(nextReportId, userId, input) IN
          /\ reports' = With(reports, nextReportId, report)
          /\ nextReportId' = nextReportId + 1
          /\ last' = Call("createReport", userId, 0, input,
                          [Ok EXCEPT !.report = {report}, !.reports = {report}])
    /\ UNCHANGED <<requests, searches, searchResults, nextRequestId, nextSearchId,
                   approvals, inflight>>

\* searchInputSchema.parse and search.create
StepCreateSearchRow ==
    /\ \E userId \in RecordSearchers, input \in StepSearchInputs :
          IF ~searchInputSchema(input)
          THEN /\ last' = Call("createSearch", userId, 0, input, Fail(ZodError("search")))
               /\ UNCHANGED <<searches, nextSearchId, inflight>>
          ELSE /\ nextSearchId <= MaxSearches
               /\ searches' = With(searches, nextSearchId,
                                   NewSearch(nextSearchId, userId, input))
               /\ nextSearchId' = nextSearchId + 1
               /\ inflight' = With(inflight, nextSearchId,
                                   InFlight("findMany", userId, input, {}))
               /\ UNCHANGED last
    /\ UNCHANGED <<reports, requests, searchResults, nextReportId, nextRequestId, approvals>>

\* report.findMany, and the rows that matchingReports.map prepares from its answer
StepFindMany ==
    /\ \E s \in DOMAIN inflight :
          LET call == inflight[s] IN
          /\ call.pc = "findMany"
          /\ IF orConditions(call.input) = {}
             THEN /\ inflight' = [inflight EXCEPT ![s].pc = "done"]
                  /\ last' = Call("createSearch", call.userId, 0, call.input,
                                  [Ok EXCEPT !.search = {searches[s]}])
             ELSE /\ inflight' =
                        [inflight EXCEPT
                           ![s].pc = "transaction",
                           ![s].rows =
                              { NewSearchResult(searches[s], reports[r],
                                                matchedField(call.input, reports[r])) :
                                  r \in matchingReports(call.input) }]
                  /\ UNCHANGED last
    /\ UNCHANGED <<reports, requests, searches, searchResults, nextReportId,
                   nextRequestId, nextSearchId, approvals>>

\* the $transaction of the searchResult.create calls, and the return
StepTransaction ==
    /\ \E s \in DOMAIN inflight :
          LET call == inflight[s] IN
          /\ call.pc = "transaction"
          /\ \E batch \in TransactionCommits(call.rows \ searchResults) :
                /\ searchResults' = searchResults \cup batch
                /\ IF call.rows \subseteq searchResults'
                   THEN /\ inflight' = [inflight EXCEPT ![s].pc = "done"]
                        /\ last' = Call("createSearch", call.userId, 0, call.input,
                                        [Ok EXCEPT !.search = {searches[s]},
                                                   !.searchResults = call.rows])
                   ELSE UNCHANGED <<inflight, last>>
    /\ UNCHANGED <<reports, requests, searches, nextReportId, nextRequestId,
                   nextSearchId, approvals>>

StepGetSearchById ==
    /\ \E userId \in RecordSearchers, searchId \in SearchIds : getSearchById(userId, searchId)
    /\ UNCHANGED <<reports, requests, searches, searchResults, nextReportId,
                   nextRequestId, nextSearchId, approvals, inflight>>

StepNext ==
    \/ StepCreateReport
    \/ StepCreateSearchRow
    \/ StepFindMany
    \/ StepTransaction
    \/ StepGetSearchById

SpecSteps == Init /\ [][StepNext]_vars

(* ------------- approve and deny as their store calls, interleaved -------- *)
\* approveAccessRequest and denyAccessRequest await two store calls:
\* reportAccessRequest.findUnique, then reportAccessRequest.update
MaxCalls == 2

DecideOwners == {"u1"}

DecideRequesters == {"u2"}

DecideReportInputs == { ReportOf(Ident("ann", "a@x.com"), MinRating * RatingUnit) }

DecideMessageInputs == { [message |-> Repeat("m", MinMessageLen)] }

Decisions == {"approveAccessRequest", "denyAccessRequest"}

Decision(pc, op, reportOwnerId, requestId, success) ==
    [pc |-> pc, op |-> op, reportOwnerId |-> reportOwnerId, requestId |-> requestId,
     success |-> success]

\* the failure that the checks after findUnique return, "" when they all pass
decisionRefusal(op, reportOwnerId, requestId) ==
    IF requestId \notin DOMAIN requests
    THEN "Request not found"
    ELSE IF op = "approveAccessRequest"
    THEN IF approveUnauthorized(requests[requestId], reportOwnerId)
         THEN "You don't have permission to approve this request"
         ELSE IF approveNotPending(requests[requestId])
         THEN "Request is already " \o ToLowerCase(requests[requestId].status)
         ELSE ""
    ELSE IF denyUnauthorized(requests[requestId], reportOwnerId)
         THEN "You don't have permission to deny this request"
         ELSE IF denyNotPending(requests[requestId])
         THEN "Request is already " \o ToLowerCase(requests[requestId].status)
         ELSE ""

DecideCreateReport ==
    /\ \E userId \in DecideOwners, input \in DecideReportInputs : createReport(userId, input)
    /\ UNCHANGED inflight
    /\ UNCHANGED <<requests, searches, searchResults, nextRequestId, nextSearchId, approvals>>

DecideRequestAccess ==
    /\ \E userId \in DecideRequesters, reportId \in ReportIds, input \in DecideMessageInputs :
          requestAccessToReport(userId, reportId, input)
    /\ UNCHANGED inflight
    /\ UNCHANGED <<reports, searches, searchResults, nextReportId, nextSearchId, approvals>>

\* findUnique and the three checks: the call returns a failure or goes on
DecideFindUnique ==
    /\ \E c \in 1..MaxCalls, op \in Decisions, reportOwnerId \in Users,
          requestId \in RequestIds :
          /\ c \notin DOMAIN inflight
          /\ \A b \in 1..(c - 1) : b \in DOMAIN inflight
          /\ LET refusal == decisionRefusal(op, reportOwnerId, requestId) IN
             IF refusal # ""
             THEN /\ inflight' = With(inflight, c,
                                      Decision("done", op, reportOwnerId, requestId, FALSE))
                  /\ last' = Call(op, reportOwnerId, requestId, Undefined, Fail(refusal))
             ELSE /\ inflight' = With(inflight, c,
                                      Decision("update", op, reportOwnerId, requestId, FALSE))
                  /\ UNCHANGED last
    /\ UNCHANGED <<reports, requests, searches, searchResults, nextReportId,
                   nextRequestId, nextSearchId, approvals>>

\* reportAccessRequest.update where id: requestId, and the return
DecideUpdate ==
    /\ \E c \in DOMAIN inflight :
          LET call == inflight[c]
              updated == IF call.op = "approveAccessRequest"
                         THEN ApprovedRow(requests[call.requestId])
                         ELSE DeniedRow(requests[call.requestId]) IN
          /\ call.pc = "update"
          /\ requests' = [requests EXCEPT ![call.requestId] = updated]
          /\ approvals' = IF call.op = "approveAccessRequest"
                          THEN approvals \cup {<<updated.requesterId, updated.reportId>>}
                          ELSE approvals
          /\ inflight' = [inflight EXCEPT ![c].pc = "done", ![c].success = TRUE]
          /\ last' = Call(call.op, call.reportOwnerId, call.requestId, Undefined,
                          [Ok EXCEPT !.request = {updated}])
    /\ UNCHANGED <<reports, searches, searchResults, nextReportId, nextRequestId,
                   nextSearchId>>

DecideNext ==
    \/ DecideCreateReport
    \/ DecideRequestAccess
    \/ DecideFindUnique
    \/ DecideUpdate

SpecDecide == Init /\ [][DecideNext]_vars

(* ---------- requestAccessToReport as its store calls, interleaved -------- *)
\* requestAccessToReport awaits three store calls: report.findUnique,
\* reportAccessRequest.findFirst and reportAccessRequest.create
AccessCall(pc, userId, reportId, input, report, error) ==
    [pc |-> pc, userId |-> userId, reportId |-> reportId, input |-> input,
     report |-> report, error |-> error]

Returned(call, error) == [call EXCEPT !.pc = "done", !.error = error]

\* whether the store has a unique index on (reportId, requesterId) is not
\* known from the handlers: both kinds of store are possible
UniquePairIndex == BOOLEAN

RaceCreateReport ==
    /\ \E userId \in DecideOwners, input \in DecideReportInputs : createReport(userId, input)
    /\ UNCHANGED inflight
    /\ UNCHANGED <<requests, searches, searchResults, nextRequestId, nextSearchId, approvals>>

\* report.findUnique, the NotFound check and the ownership check
RaceFindUnique ==
    /\ \E c \in 1..MaxCalls, userId \in Users, reportId \in ReportIds,
          input \in MessageInputs :
          /\ c \notin DOMAIN inflight
          /\ \A b \in 1..(c - 1) : b \in DOMAIN inflight
          /\ IF reportId \notin DOMAIN reports
             THEN /\ inflight' = With(inflight, c,
                                      AccessCall("done", userId, reportId, input, {},
                                                 "Report not found"))
                  /\ last' = Call("requestAccessToReport", userId, reportId, input,
                                  Fail("Report not found"))
             ELSE IF requestIsOwner(reports[reportId], userId)
             THEN /\ inflight' = With(inflight, c,
                                      AccessCall("done", userId, reportId, input, {},
                                                 "You already own this report"))
                  /\ last' = Call("requestAccessToReport", userId, reportId, input,
                                  Fail("You already own this report"))
             ELSE /\ inflight' = With(inflight, c,
                                      AccessCall("findFirst", userId, reportId, input,
                                                 {reports[reportId]}, ""))
                  /\ UNCHANGED last
    /\ UNCHANGED <<reports, requests, searches, searchResults, nextReportId,
                   nextRequestId, nextSearchId, approvals>>

\* reportAccessRequest.findFirst, the Conflict check and safeParse
RaceFindFirst ==
    /\ \E c \in DOMAIN inflight :
          LET call == inflight[c] IN
          /\ call.pc = "findFirst"
          /\ IF ExistingRequests(call.userId, call.reportId) # {}
             THEN \E q \in ExistingRequests(call.userId, call.reportId) :
                     LET error == "You already have a " \o ToLowerCase(requests[q].status)
                                  \o " request for this report." IN
                     /\ inflight' = [inflight EXCEPT ![c] = Returned(call, error)]
                     /\ last' = Call("requestAccessToReport", call.userId, call.reportId,
                                     call.input, Fail(error))
             ELSE IF ~accessRequestSchema(call.input)
             THEN /\ inflight' = [inflight EXCEPT ![c] = Returned(call, ZodError("message"))]
                  /\ last' = Call("requestAccessToReport", call.userId, call.reportId,
                                  call.input, Fail(ZodError("message")))
             ELSE /\ inflight' = [inflight EXCEPT ![c].pc = "create"]
                  /\ UNCHANGED last
    /\ UNCHANGED <<reports, requests, searches, searchResults, nextReportId,
                   nextRequestId, nextSearchId, approvals>>

\* reportAccessRequest.create and the return; a store with the unique index
\* throws on a second row for the pair and the catch block answers
RaceCreate ==
    /\ \E c \in DOMAIN inflight, unique \in UniquePairIndex :
          LET call == inflight[c] IN
          /\ call.pc = "create"
          /\ IF unique /\ ExistingRequests(call.userId, call.reportId) # {}
             THEN /\ inflight' =
                        [inflight EXCEPT
                           ![c] = Returned(call, Caught("requestAccessToReport",
                                                        StoreFailure("unique")))]
                  /\ last' = Throwing("requestAccessToReport", call.userId, call.reportId,
                                      call.input, StoreFailure("unique"))
                  /\ UNCHANGED <<requests, nextRequestId>>
             ELSE /\ nextRequestId <= MaxRequests
                  /\ \E report \in call.report :
                        LET request == NewRequest(nextRequestId, call.userId, report,
                                                  call.input.message) IN
                        /\ requests' = With(requests, nextRequestId, request)
                        /\ nextRequestId' = nextRequestId + 1
                        /\ inflight' = [inflight EXCEPT ![c] = Returned(call, "")]
                        /\ last' = Call("requestAccessToReport", call.userId,
                                        call.reportId, call.input,
                                        [Ok EXCEPT !.request = {request}])
    /\ UNCHANGED <<reports, searches, searchResults, nextReportId, nextSearchId, approvals>>

RaceNext ==
    \/ RaceCreateReport
    \/ RaceFindUnique
    \/ RaceFindFirst
    \/ RaceCreate

SpecRace == Init /\ [][RaceNext]_vars

(* ------------------------- store calls that throw ------------------------ *)
\* the store cannot be reached: the first store call of the handler throws
\* and the catch block of the handler builds the result
Unreachable ==
    [isError |-> TRUE,
     message |-> "PrismaClientInitializationError: Can't reach database server"]

tables == <<reports, requests, searches, searchResults, nextReportId,
            nextRequestId, nextSearchId, approvals, inflight>>

FailCreateReport ==
    /\ \E userId \in RecordAuthors, input \in RecordReportInputs :
          /\ reportInputSchema(input)
          /\ last' = Throwing("createReport", userId, 0, input, Unreachable)
    /\ UNCHANGED tables

FailUpdateReport ==
    /\ \E userId \in RecordAuthors, reportId \in ReportIds, input \in RecordReportInputs :
          last' = Throwing("updateReport", userId, reportId, input, Unreachable)
    /\ UNCHANGED tables

FailGetReportById ==
    /\ \E userId \in Users, reportId \in ReportIds :
          last' = Throwing("getReportById", userId, reportId, Undefined, Unreachable)
    /\ UNCHANGED tables

FailDeleteReport ==
    /\ \E userId \in Users, reportId \in ReportIds :
          last' = Throwing("deleteReport", userId, reportId, Undefined, Unreachable)
    /\ UNCHANGED tables

FailCreateSearch ==
    /\ \E userId \in RecordSearchers, input \in RecordSearchInputs :
          /\ searchInputSchema(input)
          /\ last' = Throwing("createSearch", userId, 0, input, Unreachable)
    /\ UNCHANGED tables

FailUpdateSearch ==
    /\ \E userId \in RecordSearchers, searchId \in SearchIds, input \in RecordSearchInputs :
          last' = Throwing("updateSearch", userId, searchId, input, Unreachable)
    /\ UNCHANGED tables

FailGetSearchById ==
    /\ \E userId \in RecordSearchers, searchId \in SearchIds :
          last' = Throwing("getSearchById", userId, searchId, Undefined, Unreachable)
    /\ UNCHANGED tables

FailDeleteSearch ==
    /\ \E userId \in RecordSearchers, searchId \in SearchIds :
          last' = Throwing("deleteSearch", userId, searchId, Undefined, Unreachable)
    /\ UNCHANGED tables

FailRequestAccessToReport ==
    /\ \E userId \in Users, reportId \in ReportIds, input \in MessageInputs :
          last' = Throwing("requestAccessToReport", userId, reportId, input, Unreachable)
    /\ UNCHANGED tables

FailApproveAccessRequest ==
    /\ \E userId \in Users, requestId \in RequestIds :
          last' = Throwing("approveAccessRequest", userId, requestId, Undefined, Unreachable)
    /\ UNCHANGED tables

FailDenyAccessRequest ==
    /\ \E userId \in Users, requestId \in RequestIds :
          last' = Throwing("denyAccessRequest", userId, requestId, Undefined, Unreachable)
    /\ UNCHANGED tables

FaultNext ==
    \/ FailCreateReport
    \/ FailUpdateReport
    \/ FailGetReportById
    \/ FailDeleteReport
    \/ FailCreateSearch
    \/ FailUpdateSearch
    \/ FailGetSearchById
    \/ FailDeleteSearch
    \/ FailRequestAccessToReport
    \/ FailApproveAccessRequest
    \/ FailDenyAccessRequest
    \/ RecordNext

SpecFaults == Init /\ [][FaultNext]_vars

(* ------------- createSearch whose later store calls throw ---------------- *)
\* report.findMany throws after search.create has committed: the catch
\* block answers
StepFindManyThrows ==
    /\ \E s \in DOMAIN inflight :
          LET call == inflight[s] IN
          /\ call.pc = "findMany"
          /\ inflight' = [inflight EXCEPT ![s].pc = "failed"]
          /\ last' = Throwing("createSearch", call.userId, 0, call.input, Unreachable)
    /\ UNCHANGED <<reports, requests, searches, searchResults, nextReportId,
                   nextRequestId, nextSearchId, approvals>>

\* the $transaction throws and writes none of its rows: the catch block answers
StepTransactionThrows ==
    /\ \E s \in DOMAIN inflight :
          LET call == inflight[s] IN
          /\ call.pc = "transaction"
          /\ inflight' = [inflight EXCEPT ![s].pc = "failed"]
          /\ last' = Throwing("createSearch", call.userId, 0, call.input, Unreachable)
    /\ UNCHANGED <<reports, requests, searches, searchResults, nextReportId,
                   nextRequestId, nextSearchId, approvals>>

StepFaultNext ==
    \/ StepNext
    \/ StepFindManyThrows
    \/ StepTransactionThrows

SpecStepFaults == Init /\ [][StepFaultNext]_vars

(* ----------------------- updates with partial records -------------------- *)
\* a report created with name and e-mail, then updated with records that
\* leave one of the two out, and searched by the value that was left out
EditReportInputs ==
    { ReportOf(Ident("ann", "a@x.com"), MinRating * RatingUnit),
      ReportOf(Ident(Undefined, "b@x.com"), MaxRating * RatingUnit),
      ReportOf(Ident("", Undefined), MinRating * RatingUnit) }

EditSearchInputs == { Ident("ann", Undefined), Ident(Undefined, "b@x.com") }

EditCreateReport ==
    /\ \E userId \in RecordAuthors, input \in EditReportInputs : createReport(userId, input)
    /\ UNCHANGED inflight
    /\ UNCHANGED <<requests, searches, searchResults, nextRequestId, nextSearchId, approvals>>

EditUpdateReport ==
    /\ \E userId \in RecordAuthors, reportId \in ReportIds, input \in EditReportInputs :
          updateReport(userId, reportId, input)
    /\ UNCHANGED inflight
    /\ UNCHANGED <<requests, searches, nextReportId, nextRequestId,
                   nextSearchId, approvals>>

EditCreateSearch ==
    /\ \E userId \in RecordSearchers, input \in EditSearchInputs : createSearch(userId, input)
    /\ UNCHANGED inflight
    /\ UNCHANGED <<reports, requests, nextReportId, nextRequestId, approvals>>

EditDeleteSearch ==
    /\ \E userId \in RecordSearchers, searchId \in SearchIds : deleteSearch(userId, searchId)
    /\ UNCHANGED inflight
    /\ UNCHANGED <<requests, nextReportId, nextRequestId, nextSearchId, approvals>>

EditGetSearchById ==
    /\ \E userId \in RecordSearchers, searchId \in SearchIds : getSearchById(userId, searchId)
    /\ UNCHANGED inflight
    /\ UNCHANGED <<reports, requests, searches, searchResults, nextReportId,
                   nextRequestId, nextSearchId, approvals>>

EditNext ==
    \/ EditCreateReport
    \/ EditUpdateReport
    \/ EditCreateSearch
    \/ EditGetSearchById
    \/ EditDeleteSearch

SpecEdits == Init /\ [][EditNext]_vars

(* ------------------------------ properties ----------------------------- *)
Approved(userId, reportId) ==
    \E q \in DOMAIN requests :
        /\ requests[q].reportId = reportId
        /\ requests[q].requesterId = userId
        /\ requests[q].status = "APPROVED"

Terminal == {"APPROVED", "DENIED"}

DecideOps == {"approveAccessRequest", "denyAccessRequest"}

\* C1: whatever the operation, the report content in the returned value goes
\* to the report's owner or to a requester whose request for it is APPROVED.
C1_ContentOnlyToOwnerOrApproved ==
    \A report \in last.res.reports :
        report.userId = last.userId \/ Approved(last.userId, report.id)

\* C2: getReportById(u, r) succeeds and returns the report exactly when the
\* report exists and u owns it or has an APPROVED request for it; a PENDING or
\* DENIED request does not count.
C2_GetReportByIdIffOwnerOrApproved ==
    last.op = "getReportById" =>
        /\ last.res.success <=>
              /\ last.id \in DOMAIN reports
              /\ \/ reports[last.id].userId = last.userId
                 \/ Approved(last.userId, last.id)
        /\ last.res.success => last.res.report = {reports[last.id]}
        /\ ~last.res.success => last.res.report = {}

C2_Witness ==
    /\ last.op = "getReportById"
    /\ last.res.success
    /\ reports[last.id].userId # last.userId
    /\ Approved(last.userId, last.id)

C4_TerminalRequestRejected ==
    [][(/\ last'.op \in DecideOps
        /\ last'.id \in DOMAIN requests
        /\ requests[last'.id].reportOwnerId = last'.userId
        /\ requests[last'.id].status \in Terminal)
       => /\ ~last'.res.success
          /\ last'.res.error =
                (IF requests[last'.id].status = "APPROVED"
                 THEN "Request is already approved"
                 ELSE "Request is already denied")
          /\ requests' = requests]_vars

C4_Witness ==
    /\ last.op = "approveAccessRequest"
    /\ last.res.error = "Request is already denied"
    /\ requests[last.id].reportOwnerId = last.userId
    /\ requests[last.id].status = "DENIED"

\* C5: approve or deny by a user other than the request's reportOwnerId fails
\* with the permission error and leaves the requests as they were, whatever the
\* status; every change of a status is made by a successful approve or deny of
\* the request's reportOwnerId.
C5_OnlyOwnerDecides ==
    [][/\ (/\ last'.op \in DecideOps
           /\ last'.id \in DOMAIN requests
           /\ requests[last'.id].reportOwnerId # last'.userId)
          => /\ ~last'.res.success
             /\ last'.res.error =
                   (IF last'.op = "approveAccessRequest"
                    THEN "You don't have permission to approve this request"
                    ELSE "You don't have permission to deny this request")
             /\ requests' = requests
       /\ \A q \in DOMAIN requests \cap DOMAIN requests' :
             requests'[q].status # requests[q].status =>
                 /\ last'.op \in DecideOps
                 /\ last'.res.success
                 /\ last'.id = q
                 /\ last'.userId = requests[q].reportOwnerId]_vars

C5_Witness ==
    /\ last.op = "approveAccessRequest"
    /\ last.res.error = "You don't have permission to approve this request"
    /\ requests[last.id].status = "PENDING"
    /\ requests[last.id].requesterId = last.userId

C7_DuplicateRequestConflict ==
    [][\A q \in DOMAIN requests :
          (/\ last'.op = "requestAccessToReport"
           /\ last'.id = requests[q].reportId
           /\ last'.userId = requests[q].requesterId)
          => /\ ~last'.res.success
             /\ last'.res.error =
                   (CASE requests[q].status = "PENDING" ->
                           "You already have a pending request for this report."
                      [] requests[q].status = "APPROVED" ->
                           "You already have a approved request for this report."
                      [] requests[q].status = "DENIED" ->
                           "You already have a denied request for this report.")
             /\ requests' = requests
             /\ nextRequestId' = nextRequestId]_vars

C7_Witness ==
    /\ last.op = "requestAccessToReport"
    /\ ~accessRequestSchema(last.input)
    /\ last.res.error = "You already have a denied request for this report."

\* C8: requestAccessToReport by the owner of the report fails with the
\* own-report error and returns no request, and no stored request has its
\* requesterId equal to its reportOwnerId.
C8_NoSelfRequest ==
    /\ \A q \in DOMAIN requests : requests[q].requesterId # requests[q].reportOwnerId
    /\ (/\ last.op = "requestAccessToReport"
        /\ last.id \in DOMAIN reports
        /\ reports[last.id].userId = last.userId)
       => /\ ~last.res.success
          /\ last.res.error = "You already own this report"
          /\ last.res.request = {}

C8_Witness ==
    /\ last.op = "requestAccessToReport"
    /\ last.id \in DOMAIN reports
    /\ reports[last.id].userId = last.userId
    /\ accessRequestSchema(last.input)

C10_CreatedRequestFields ==
    (last.op = "requestAccessToReport" /\ last.res.success) =>
        /\ last.id \in DOMAIN reports
        /\ \E q \in DOMAIN requests :
              /\ last.res.request = {requests[q]}
              /\ requests[q].status = "PENDING"
              /\ requests[q].requesterId = last.userId
              /\ requests[q].reportId = last.id
              /\ requests[q].reportOwnerId = reports[last.id].userId

C10_Witness ==
    /\ last.op = "requestAccessToReport"
    /\ last.res.success
    /\ accessRequestSchema(last.input)
    /\ last.res.request # {}

C12_InvalidMessageRejected ==
    [][/\ (/\ last'.op = "requestAccessToReport"
           /\ last'.id \in DOMAIN reports
           /\ reports[last'.id].userId # last'.userId
           /\ ~\E q \in DOMAIN requests :
                 /\ requests[q].reportId = last'.id
                 /\ requests[q].requesterId = last'.userId
           /\ \/ Len(last'.input.message) < MinMessageLen
              \/ Len(last'.input.message) > MaxMessageLen)
          => /\ ~last'.res.success
             /\ last'.res.error = "ZodError: message"
             /\ requests' = requests
             /\ nextRequestId' = nextRequestId
       /\ (/\ last.op = "requestAccessToReport"
           /\ last.res.error = "ZodError: message"
           /\ last'.op = "requestAccessToReport"
           /\ last'.id = last.id
           /\ last'.userId = last.userId
           /\ Len(last'.input.message) >= MinMessageLen
           /\ Len(last'.input.message) <= MaxMessageLen)
          => /\ last'.res.success
             /\ \E q \in DOMAIN requests' \ DOMAIN requests :
                   /\ last'.res.request = {requests'[q]}
                   /\ requests'[q].status = "PENDING"
                   /\ requests'[q].requesterId = last'.userId
                   /\ requests'[q].reportId = last'.id]_vars

C12_Witness ==
    /\ last.op = "requestAccessToReport"
    /\ last.res.error = "ZodError: message"
    /\ Len(last.input.message) > MaxMessageLen
    /\ requests = <<>>

(* ------------------ validation of identifiers and ratings --------------- *)
\* a value that is present and not the empty string
NonEmpty(v) == v # Undefined /\ v # Null /\ v # ""

AllAbsentOrEmpty(record) == \A i \in 1..Len(Fields) : ~NonEmpty(record[Fields[i]])

HasIdentifier(row) == \E i \in 1..Len(Fields) : NonEmpty(row[Fields[i]])

\* C13: createReport and createSearch with a record whose five identifier
\* fields are all absent or empty fail with the validation error and write
\* nothing; every persisted report and search has a non-empty identifier
\* field, also after updateReport and updateSearch.
C13_EmptyIdentifiersRejected ==
    [][/\ (/\ last'.op \in {"createReport", "createSearch"}
           /\ AllAbsentOrEmpty(last'.input))
          => /\ ~last'.res.success
             /\ last'.res.error \in {ZodError("report"), ZodError("search")}
             /\ reports' = reports
             /\ searches' = searches
             /\ searchResults' = searchResults
       /\ \A r \in DOMAIN reports' : HasIdentifier(reports'[r])
       /\ \A s \in DOMAIN searches' : HasIdentifier(searches'[s])]_vars

\* a report with an empty name and an e-mail is stored, and a search with
\* only an empty name has just been refused
C13_Witness ==
    /\ last.op = "createSearch"
    /\ last.input = Ident("", Undefined)
    /\ ~last.res.success
    /\ searches = <<>>
    /\ \E r \in DOMAIN reports : reports[r].name = "" /\ reports[r].email = "b@x.com"

InRange(rating) == MinRating * RatingUnit <= rating /\ rating <= MaxRating * RatingUnit

IsInteger(rating) == rating % RatingUnit = 0

ReportWrites == {"createReport", "updateReport"}

\* C14: createReport and updateReport refuse every rating below 0 or above 10
\* and write nothing; they accept 0 and 10 when the rest of the record is
\* valid (and, for an update, the caller owns the report); the rating of every
\* persisted report is an integer between 0 and 10.
C14_RatingRange ==
    [][/\ (last'.op \in ReportWrites /\ ~InRange(last'.input.rating))
          => /\ ~last'.res.success
             /\ reports' = reports
       /\ (/\ last'.op \in ReportWrites
           /\ last'.input.rating \in {MinRating * RatingUnit, MaxRating * RatingUnit}
           /\ HasIdentifier(last'.input)
           /\ last'.op = "updateReport" =>
                 /\ last'.id \in DOMAIN reports
                 /\ reports[last'.id].userId = last'.userId)
          => /\ last'.res.success
             /\ \E r \in DOMAIN reports' :
                   /\ last'.res.report = {reports'[r]}
                   /\ reports'[r].rating = last'.input.rating
       /\ \A r \in DOMAIN reports' :
             IsInteger(reports'[r].rating) /\ InRange(reports'[r].rating)]_vars

\* a report with rating 10 is stored and the rating 3.5 has just been refused
C14_Witness ==
    /\ last.op = "updateReport"
    /\ ~IsInteger(last.input.rating)
    /\ ~last.res.success
    /\ \E r \in DOMAIN reports : reports[r].rating = MaxRating * RatingUnit

(* ------------------------------- matching ------------------------------ *)
RowsOf(searchId) == { sr \in searchResults : sr.searchId = searchId }

\* the reports with a field equal to the corresponding non-empty field of the record
NonEmptyMatches(record) ==
    { r \in DOMAIN reports :
        \E i \in 1..Len(Fields) :
           /\ NonEmpty(record[Fields[i]])
           /\ reports[r][Fields[i]] = record[Fields[i]] }

\* C15: after a successful createSearch the rows of the new search are one
\* for each report that has a field equal to the corresponding provided
\* non-empty field of the record, none for any other report, and no report
\* occurs in two rows.
C15_ResultsAreNonEmptyMatches ==
    (last.op = "createSearch" /\ last.res.success)
    => \A s \in last.res.search :
          /\ { sr.reportId : sr \in RowsOf(s.id) } = NonEmptyMatches(last.input)
          /\ \A a, b \in RowsOf(s.id) : a.reportId = b.reportId => a = b

\* the fields on which the report equals the record, by their place in the
\* fixed order name, instagramId, facebookId, email, phoneNumber
FixedOrder == <<"name", "instagramId", "facebookId", "email", "phoneNumber">>

EqualFields(record, report) ==
    { i \in 1..Len(FixedOrder) : report[FixedOrder[i]] = record[FixedOrder[i]] }

\* C16: every row that createSearch creates names, as matchedOn, the first
\* field of the fixed order on which the record equals the report, and a
\* report that is equal on several fields gets exactly one row.
C16_MatchedOnFirstField ==
    (last.op = "createSearch" /\ last.res.success)
    => /\ \A sr \in last.res.searchResults :
             /\ sr \in searchResults
             /\ EqualFields(last.input, reports[sr.reportId]) # {}
             /\ \E i \in EqualFields(last.input, reports[sr.reportId]) :
                   /\ sr.matchedOn = FixedOrder[i]
                   /\ \A j \in EqualFields(last.input, reports[sr.reportId]) : i <= j
       /\ \A r \in DOMAIN reports :
             Cardinality(EqualFields(last.input, reports[r])) > 1
             => Cardinality({ sr \in last.res.searchResults : sr.reportId = r }) = 1

\* the report equals the record on name and on email: one row, matchedOn name
C16_Witness ==
    /\ last.op = "createSearch"
    /\ last.res.success
    /\ \E sr \in last.res.searchResults :
          /\ EqualFields(last.input, reports[sr.reportId]) = {1, 4}
          /\ sr.matchedOn = "name"

(* --------------------------- owner-only calls --------------------------- *)
SearchOwnerOps == {"getSearchById", "updateSearch", "deleteSearch"}

UnauthorizedSearch(op) ==
    IF op = "updateSearch" THEN "Unauthorized: You do not own this search"
    ELSE "Unauthorized access"

NoPayload(res) ==
    /\ res.report = {} /\ res.request = {} /\ res.search = {}
    /\ res.searchResults = {} /\ res.reports = {}

\* C18: getSearchById, updateSearch and deleteSearch succeed only for the
\* owner of the search; on an absent search they fail with "Search not
\* found", for another caller with the Unauthorized error and without any
\* payload, and in both cases the searches and their results are unchanged.
C18_SearchOwnerOnly ==
    [][last'.op \in SearchOwnerOps
       => /\ last'.res.success
             => /\ last'.id \in DOMAIN searches
                /\ searches[last'.id].userId = last'.userId
          /\ last'.id \notin DOMAIN searches
             => /\ ~last'.res.success
                /\ last'.res.error = "Search not found"
                /\ NoPayload(last'.res)
                /\ searches' = searches
                /\ searchResults' = searchResults
          /\ (last'.id \in DOMAIN searches /\ searches[last'.id].userId # last'.userId)
             => /\ ~last'.res.success
                /\ last'.res.error = UnauthorizedSearch(last'.op)
                /\ NoPayload(last'.res)
                /\ searches' = searches
                /\ searchResults' = searchResults]_vars

\* a user who does not own a search with results has just been refused it
C18_Witness ==
    /\ last.op = "getSearchById"
    /\ last.id \in DOMAIN searches
    /\ searches[last.id].userId # last.userId
    /\ last.res.error = "Unauthorized access"
    /\ RowsOf(last.id) # {}

ReportOwnerOps == {"updateReport", "deleteReport"}

UnauthorizedReport(op) ==
    IF op = "updateReport" THEN "Unauthorized: You do not own this report"
    ELSE "Unauthorized access"

\* C19: updateReport and deleteReport fail with "Report not found" on an
\* absent report and with the Unauthorized error for a caller who is not the
\* owner, whatever the record; every failed call leaves the reports
\* unchanged; a report changes or disappears only in a successful call of
\* one of the two by its owner.
C19_ReportOwnerOnly ==
    [][/\ last'.op \in ReportOwnerOps
          => /\ last'.id \notin DOMAIN reports
                => last'.res.error = "Report not found"
             /\ (last'.id \in DOMAIN reports /\ reports[last'.id].userId # last'.userId)
                => last'.res.error = UnauthorizedReport(last'.op)
             /\ ~last'.res.success => reports' = reports
       /\ \A r \in DOMAIN reports :
             (r \notin DOMAIN reports' \/ reports'[r] # reports[r])
             => /\ last'.op \in ReportOwnerOps
                /\ last'.res.success
                /\ last'.id = r
                /\ last'.userId = reports[r].userId]_vars

\* a non-owner has sent an invalid record for a stored report
C19_Witness ==
    /\ last.op = "updateReport"
    /\ last.id \in DOMAIN reports
    /\ reports[last.id].userId # last.userId
    /\ ~reportInputSchema(last.input)
    /\ last.res.error = "Unauthorized: You do not own this report"
    /\ reports[last.id].rating = MaxRating * RatingUnit

\* C20: a successful updateSearch leaves every SearchResult and every report
\* as they were, and changes of the searches only the identifier fields of
\* the updated one.
C20_UpdateSearchKeepsResults ==
    [][(last'.op = "updateSearch" /\ last'.res.success)
       => /\ searchResults' = searchResults
          /\ reports' = reports
          /\ DOMAIN searches' = DOMAIN searches
          /\ \A s \in DOMAIN searches :
                /\ s # last'.id => searches'[s] = searches[s]
                /\ searches'[s].id = searches[s].id
                /\ searches'[s].userId = searches[s].userId]_vars

\* the updated search keeps a row for a report that its new e-mail does not match
C20_Witness ==
    /\ last.op = "updateSearch"
    /\ last.res.success
    /\ \E sr \in RowsOf(last.id) :
          /\ sr.matchedOn = "name"
          /\ reports[sr.reportId].name = "ann"
          /\ searches[last.id].email # reports[sr.reportId].email

(* ----------------------- the rows of one createSearch -------------------- *)
\* C17: the rows of a search that are in the store are none of, or all of,
\* the rows its createSearch writes, in every state between the store calls,
\* and so is what a concurrent getSearchById returns.
C17_ResultsAllOrNothing ==
    /\ \A s \in DOMAIN inflight :
          \/ RowsOf(s) = {}
          \/ inflight[s].pc # "findMany" /\ RowsOf(s) = inflight[s].rows
    /\ (last.op = "getSearchById" /\ last.res.success)
       => last.res.searchResults \in {{}, inflight[last.id].rows}

\* a reader has received both rows of a search that matched two reports
C17_Witness ==
    /\ last.op = "getSearchById"
    /\ last.res.success
    /\ inflight[last.id].pc = "done"
    /\ Cardinality(inflight[last.id].rows) = MaxBatch
    /\ last.res.searchResults = inflight[last.id].rows

C22_DeletedReportResultsKept ==
    [][/\ (last'.op = "deleteReport" /\ last'.res.success)
          => \A sr \in searchResults : sr \in searchResults'
       /\ (last'.op = "createSearch" /\ last'.res.success)
          => \A sr \in last'.res.searchResults : sr.reportId \in DOMAIN reports']_vars

\* C23: after a successful deleteReport no access request for that report
\* remains; in every state every access request references a stored report.
C23_RequestsReferenceReports ==
    /\ \A q \in DOMAIN requests : requests[q].reportId \in DOMAIN reports
    /\ (last.op = "deleteReport" /\ last.res.success)
       => /\ last.id \notin DOMAIN reports
          /\ \A q \in DOMAIN requests : requests[q].reportId # last.id

\* a report has been deleted after a request for it was approved
C23_Witness ==
    /\ last.op = "deleteReport"
    /\ last.res.success
    /\ approvals # {}
    /\ requests = <<>>

(* --------------------------- what a reader learns ------------------------ *)
\* what getReportById answers for a report that is not stored
AbsentAnswer == Fail("Access denied or report not found.")

\* C24: to a caller who neither owns the report nor has an approved request
\* for it, getReportById answers exactly what it answers for a report that
\* is not stored, whether the report is stored or not.
C24_NoExistenceLeak ==
    /\ \A userId \in Users, reportId \in ReportIds :
          (\/ reportId \notin DOMAIN reports
           \/ /\ reports[reportId].userId # userId
              /\ ~Approved(userId, reportId))
          => getReportByIdResult(userId, reportId) = AbsentAnswer
    /\ (/\ last.op = "getReportById"
        /\ \/ last.id \notin DOMAIN reports
           \/ /\ reports[last.id].userId # last.userId
              /\ ~Approved(last.userId, last.id))
       => last.res = AbsentAnswer

\* a requester whose request was denied has asked for the stored report
C24_Witness ==
    /\ last.op = "getReportById"
    /\ last.id \in DOMAIN reports
    /\ reports[last.id].userId # last.userId
    /\ \E q \in DOMAIN requests :
          /\ requests[q].reportId = last.id
          /\ requests[q].requesterId = last.userId
          /\ requests[q].status = "DENIED"
    /\ last.res = AbsentAnswer

(* ------------------------------ store errors ----------------------------- *)
\* the fixed messages a handler may return when the operation failed
OperationFailed ==
    { "Failed to fetch report", "Failed to delete report", "Failed to fetch search",
      "Failed to delete search", "Failed to create access request",
      "Failed to approve request", "Failed to deny request", "Invalid input" }

\* C25: when a store call threw inside an operation, the operation returns a
\* failure whose error is a fixed operation-failed message and not the text
\* of the store's error.
C25_StoreErrorsGeneric ==
    \A error \in last.thrown :
       /\ ~last.res.success
       /\ last.res.error \in OperationFailed
       /\ last.res.error # error.message

(* -------------------------- interleaved decisions ------------------------ *)
Succeeded(requestId) ==
    { c \in DOMAIN inflight :
        /\ inflight[c].requestId = requestId
        /\ inflight[c].pc = "done"
        /\ inflight[c].success }

\* C26: of the approve and deny calls on one request, interleaved at their
\* store calls, at most one returns success; the status is written once, and
\* after a call has returned success the status does not change.
C26_OneDecisionWins ==
    [][/\ \A q \in RequestIds : Cardinality(Succeeded(q)') <= 1
       /\ \A q \in DOMAIN requests :
             requests'[q] # requests[q] => requests[q].status = "PENDING"
       /\ \A q \in DOMAIN requests :
             Succeeded(q) # {} => requests'[q].status = requests[q].status]_vars

(* ---------------------- interleaved access requests ---------------------- *)
ConflictErrors ==
    { "You already have a " \o ToLowerCase(status) \o " request for this report." :
        status \in {"PENDING", "APPROVED", "DENIED"} }

\* the finished calls of one requester for one report
FinishedFor(userId, reportId) ==
    { c \in DOMAIN inflight :
        /\ inflight[c].pc = "done"
        /\ inflight[c].userId = userId
        /\ inflight[c].reportId = reportId }

\* C27: of the requestAccessToReport calls of one requester for one report,
\* interleaved at their store calls, at most one creates a request and every
\* other one that found the report and carries a valid message fails with
\* the Conflict error; no two requests have the same report and requester.
C27_OneRequestUnderInterleaving ==
    /\ \A q1, q2 \in DOMAIN requests :
          (/\ requests[q1].reportId = requests[q2].reportId
           /\ requests[q1].requesterId = requests[q2].requesterId) => q1 = q2
    /\ \A userId \in Users, reportId \in ReportIds :
          /\ Cardinality({ c \in FinishedFor(userId, reportId) :
                             inflight[c].error = "" }) <= 1
          /\ \A c \in FinishedFor(userId, reportId) :
                (/\ inflight[c].error # ""
                 /\ inflight[c].report # {}
                 /\ accessRequestSchema(inflight[c].input))
                => inflight[c].error \in ConflictErrors

(* ------------------------- the order of the checks ----------------------- *)
RequestsOf(userId, reportId) ==
    { q \in DOMAIN requests :
        requests[q].requesterId = userId /\ requests[q].reportId = reportId }

ValidMessage(input) ==
    Len(input.message) >= MinMessageLen /\ Len(input.message) <= MaxMessageLen

\* C28: requestAccessToReport returns the first failure that applies, in the
\* order report absent, caller is the owner, request exists, message invalid;
\* a duplicate request with an invalid message fails with the Conflict error.
C28_ChecksInOrder ==
    last.op = "requestAccessToReport"
    => IF last.id \notin DOMAIN reports
       THEN last.res.error = "Report not found"
       ELSE IF reports[last.id].userId = last.userId
       THEN last.res.error = "You already own this report"
       ELSE IF last.res.success
       THEN ValidMessage(last.input)
       ELSE IF RequestsOf(last.userId, last.id) # {}
       THEN \E q \in RequestsOf(last.userId, last.id) :
               last.res.error = "You already have a " \o ToLowerCase(requests[q].status)
                                \o " request for this report."
       ELSE ~ValidMessage(last.input) /\ last.res.error = "ZodError: message"

\* a second request for the pair, with a message that is too short, was
\* refused with the Conflict error of the denied first request
C28_Witness ==
    /\ last.op = "requestAccessToReport"
    /\ Len(last.input.message) < MinMessageLen
    /\ last.res.error = "You already have a denied request for this report."

(* --------------------- empty strings in the search record ---------------- *)
\* C29: after a successful createSearch whose record has the empty string as
\* name and a non-empty email, no row of the new search references a report
\* whose name is the empty string and whose email differs from the record's.
C29_EmptyNameNotMatched ==
    (/\ last.op = "createSearch"
     /\ last.res.success
     /\ last.input.name = ""
     /\ NonEmpty(last.input.email))
    => \A s \in last.res.search :
          \A sr \in RowsOf(s.id) :
             ~(/\ reports[sr.reportId].name = ""
               /\ reports[sr.reportId].email # last.input.email)

FieldNames == {"name", "instagramId", "facebookId", "email", "phoneNumber"}

\* C30: every stored SearchResult names one of the five identifier fields as
\* matchedOn, never "unknown"; for the rows a createSearch has just created,
\* the report has, in that field, the non-empty value of the record.
C30_MatchedOnNamesEqualField ==
    /\ \A sr \in searchResults : sr.matchedOn \in FieldNames
    /\ (last.op = "createSearch" /\ last.res.success)
       => \A sr \in last.res.searchResults :
             /\ sr.matchedOn \in FieldNames
             /\ NonEmpty(last.input[sr.matchedOn])
             /\ reports[sr.reportId][sr.matchedOn] = last.input[sr.matchedOn]

(* ------------------------------ report edits ----------------------------- *)
TextColumns ==
    {"name", "instagramId", "facebookId", "email", "phoneNumber", "description"}

\* what a column holds when it is set from the record alone
FromRecord(v) == IF v = Undefined THEN Null ELSE v

\* C31: after a successful updateReport every identifier field, the rating
\* and the description of the stored report are those of the record; a field
\* that the record leaves out is not set on the report.
C31_UpdateOverwritesAll ==
    (last.op = "updateReport" /\ last.res.success)
    => /\ reports[last.id].rating = last.input.rating
       /\ \A column \in TextColumns :
             reports[last.id][column] = FromRecord(last.input[column])

(* ------------------------- searches that failed -------------------------- *)
\* C32: when a createSearch has returned a failure, the store holds neither
\* the Search row nor any SearchResult row which that call created.
C32_FailedSearchLeavesNothing ==
    \A s \in DOMAIN inflight :
       inflight[s].pc = "failed"
       => /\ s \notin DOMAIN searches
          /\ RowsOf(s) = {}

(* --------------------------- owners and access --------------------------- *)
\* C33: the reportOwnerId of every access request is the userId that the
\* stored report it references has now; a successful updateReport leaves
\* the userId of the report with the caller, its owner.
C33_OwnerCopyIsCurrent ==
    /\ \A q \in DOMAIN requests :
          requests[q].reportId \in DOMAIN reports
          => requests[q].reportOwnerId = reports[requests[q].reportId].userId
    /\ (last.op = "updateReport" /\ last.res.success)
       => \A report \in last.res.report :
             /\ report.userId = last.userId
             /\ reports[last.id].userId = last.userId

\* the owner has updated a report for which a request is stored
C33_Witness ==
    /\ last.op = "updateReport"
    /\ last.res.success
    /\ \E q \in DOMAIN requests :
          /\ requests[q].reportId = last.id
          /\ requests[q].reportOwnerId = last.userId
          /\ requests[q].requesterId # last.userId

Denied(userId, reportId) ==
    \E q \in DOMAIN requests :
       /\ requests[q].reportId = reportId
       /\ requests[q].requesterId = userId
       /\ requests[q].status = "DENIED"

\* the report was stored once and is deleted: its id is not handed out again
Gone(reportId) == reportId < nextReportId /\ reportId \notin DOMAIN reports

Readable(userId, reportId) == getReportByIdResult(userId, reportId).success

\* a requester with a denied request for the report, or a report that is gone
Blocked(userId, reportId) == Denied(userId, reportId) \/ Gone(reportId)

\* C34: once a requester's request for a report is DENIED, the requester
\* stays without access: the request stays denied until the report is
\* deleted, and in all these states getReportById by the requester fails.
C34_DeniedStaysDenied ==
    [][\A userId \in Users, reportId \in ReportIds :
          /\ Blocked(userId, reportId) => Blocked(userId, reportId)'
          /\ Blocked(userId, reportId)'
             => /\ ~Readable(userId, reportId)'
                /\ (/\ last'.op = "getReportById"
                    /\ last'.userId = userId
                    /\ last'.id = reportId) => ~last'.res.success]_vars

\* C35: access is never revoked: when getReportById succeeds for a user who
\* is not the owner, it still succeeds after every step that leaves the
\* report stored.
C35_AccessNeverRevoked ==
    [][\A userId \in Users, reportId \in ReportIds :
          (/\ reportId \in DOMAIN reports
           /\ reports[reportId].userId # userId
           /\ Readable(userId, reportId)
           /\ reportId \in DOMAIN reports')
          => Readable(userId, reportId)']_vars

\* C36: a successful updateReport leaves every recorded SearchResult row as
\* it was (searchId, reportId and matchedOn), also when the edit changes the
\* field value the row's match was made on.
C36_EditKeepsRecordedResults ==
    [][(last'.op = "updateReport" /\ last'.res.success)
       => /\ searchResults' = searchResults
          /\ \A sr \in searchResults :
                \E kept \in searchResults' :
                   /\ kept.searchId = sr.searchId
                   /\ kept.reportId = sr.reportId
                   /\ kept.matchedOn = sr.matchedOn]_vars

\* an edit has removed the name that a recorded row matched on
C36_Witness ==
    /\ last.op = "updateReport"
    /\ last.res.success
    /\ \E sr \in searchResults :
          /\ sr.reportId = last.id
          /\ sr.matchedOn = "name"
          /\ sr.searchId \in DOMAIN searches
          /\ searches[sr.searchId].name = "ann"
          /\ reports[last.id].name # "ann"

(* ------------- createSearch with the orders the code can see ------------ *)
\* An object keeps its keys in the order the caller wrote them, and findMany
\* without orderBy returns the matching reports in an order the store picks.
OrderReportInputs ==
    { ReportOf(Ident("ann", "a@x.com"), MinRating * RatingUnit),
      ReportOf(Ident("ann", "b@x.com"), MinRating * RatingUnit) }

OrderSearchInputs ==
    { Ident("ann", "a@x.com"), Ident(Undefined, "b@x.com"), Ident(Undefined, Undefined) }

Reverse(seq) == [i \in 1..Len(seq) |-> seq[Len(seq) + 1 - i]]

\* the key orders in which the callers build the input object
KeyOrders == { Fields, Reverse(Fields) }

\* Object.entries of the object the caller built with its keys in this order
Entries(input, keys) == [i \in 1..Len(keys) |-> <<keys[i], input[keys[i]]>>]

ValueOf(entries, key) ==
    entries[CHOOSE i \in 1..Len(entries) : entries[i][1] = key][2]

\* variant: the parsed object keeps the key order of the caller's object
zodParse_KeepsCallerOrder(entries) == entries

\* searchInputSchema.parse: the output object is built key by key in the
\* order of the schema's shape
zodParse(entries) ==
    [i \in 1..Len(Fields) |-> <<Fields[i], ValueOf(entries, Fields[i])>>]

\* Object.entries(data).find(([key, value]) => report[key] === value)?.[0] || "unknown"
matchedFieldIn(entries, report) ==
    LET hits == { i \in 1..Len(entries) : report[entries[i][1]] = entries[i][2] } IN
    IF hits = {} THEN "unknown"
    ELSE entries[CHOOSE i \in hits : \A j \in hits : i <= j][1]

\* the orders in which report.findMany can return these reports
ReturnOrders(ids) ==
    { seq \in [1..Cardinality(ids) -> ids] :
         \A i, j \in 1..Cardinality(ids) : i # j => seq[i] # seq[j] }

\* matchingReports.map(report => searchResult.create(...)) over the returned order
MappedRows(search, entries, returned) ==
    { NewSearchResult(search, reports[returned[i]],
                      matchedFieldIn(entries, reports[returned[i]])) :
        i \in 1..Len(returned) }

\* one invocation: what it was given and what the store held
Invocation(input, keys, returned) ==
    [input |-> input, keys |-> keys, returned |-> returned, reports |-> reports]

OrderCreateReport ==
    /\ nextReportId <= MaxBatch
    /\ \E userId \in RecordAuthors, input \in OrderReportInputs :
          LET report == NewReport(nextReportId, userId, input) IN
          /\ reports' = With(reports, nextReportId, report)
          /\ nextReportId' = nextReportId + 1
          /\ last' = Call("createReport", userId, 0, input,
                          [Ok EXCEPT !.report = {report}, !.reports = {report}])
    /\ UNCHANGED <<requests, searches, searchResults, nextRequestId, nextSearchId,
                   approvals, inflight>>

OrderCreateSearch ==
    /\ \E userId \in RecordSearchers, input \in OrderSearchInputs, keys \in KeyOrders :
          IF ~searchInputSchema(input)
          THEN /\ last' = Call("createSearch", userId, 0, input, Fail(ZodError("search")))
               /\ UNCHANGED <<searches, searchResults, nextSearchId, inflight>>
          ELSE /\ nextSearchId <= MaxCalls
               /\ LET data == zodParse(Entries(input, keys))
                      search == NewSearch(nextSearchId, userId, input) IN
                  \E returned \in ReturnOrders(matchingReports(input)) :
                     LET created == MappedRows(search, data, returned) IN
                     /\ searches' = With(searches, nextSearchId, search)
                     /\ nextSearchId' = nextSearchId + 1
                     /\ searchResults' = searchResults \cup created
                     /\ inflight' = With(inflight, nextSearchId,
                                         Invocation(input, keys, returned))
                     /\ last' = Call("createSearch", userId, 0, input,
                                     [Ok EXCEPT !.search = {search},
                                                !.searchResults = created])
    /\ UNCHANGED <<reports, requests, nextReportId, nextRequestId, approvals>>

OrderNext == OrderCreateReport \/ OrderCreateSearch

SpecOrders == Init /\ [][OrderNext]_vars

\* the (reportId, matchedOn) pairs recorded for a search
Pairs(searchId) == { <<sr.reportId, sr.matchedOn>> : sr \in RowsOf(searchId) }

\* C37: two createSearch invocations with equal identifier records against
\* the same reports record the same (reportId, matchedOn) pairs, whatever
\* the key order of the caller's object and the order the store returned
\* the reports in.
C37_SameRecordSamePairs ==
    \A a, b \in DOMAIN inflight :
       (/\ inflight[a].input = inflight[b].input
        /\ inflight[a].reports = inflight[b].reports)
       => Pairs(a) = Pairs(b)

\* two invocations that differ in both orders, with a report that equals the
\* record on two fields
C37_Witness ==
    \E a, b \in DOMAIN inflight :
       /\ inflight[a].input = inflight[b].input
       /\ inflight[a].reports = inflight[b].reports
       /\ inflight[a].keys # inflight[b].keys
       /\ inflight[a].returned # inflight[b].returned
       /\ \E sr \in RowsOf(a) :
             Cardinality(EqualFields(inflight[a].input, reports[sr.reportId])) > 1
       /\ Pairs(a) = Pairs(b)

====
